---- MODULE Spec2Model ----
(***************************************************************************)
(* AxelarAuthWeighted (contract/auth/src/lib.rs): the epoch-indexed        *)
(* operator-set registry, operator rotation and weighted-threshold proof   *)
(* validation, as a state machine.  Every external call is one atomic      *)
(* transaction: a panic aborts it and leaves the stored state untouched.   *)
(***************************************************************************)
EXTENDS Integers, Sequences, FiniteSets, TLC

VARIABLES
    current_epoch,    \* u64, the highest epoch committed
    hash_for_epoch,   \* LookupMap<u64, [u8; 32]>
    epoch_for_hash,   \* LookupMap<[u8; 32], u64>
    owner,            \* the Owner slot written by Owner::init
    pc,               \* "idle": no call in progress; "done": a call has ended
    call              \* the call that ended last, with its outcome

vars == <<current_epoch, hash_for_epoch, epoch_for_hash, owner, pc, call>>

registry == <<current_epoch, hash_for_epoch, epoch_for_hash>>

(***************************************************************************)
(* Bounds of the explored inputs.                                          *)
(***************************************************************************)
MaxAddr == 2        \* addresses are 0..MaxAddr, 0 being the zero address
MaxSigs == 2        \* longest signature array of a proof
MaxPad == 2         \* bytes an encoding may carry after its canonical form
MaxEpoch == 18      \* largest current_epoch of a stored registry
MaxSeed == 2        \* longest sequence of operator sets handed to new

\* The longest operator and weight array of an input: one entry per address.
MaxOps == MaxAddr

OLD_KEY_RETENTION == 16

\* The builds of the contract: with (TRUE) and without integer-overflow checks.
Builds == BOOLEAN

Accounts == {"alice", "bob"}
Deployer == "alice"
Digests == {"m1", "m2"}

\* The digest validate_proof is called with.  The contract only hands the
\* digest to recover, so one digest stands for all; a signature is over it or
\* over another digest.
MessageHashes == {"m1"}

(***************************************************************************)
(* Unsigned integers.  An ABI uint256 is kept as three limbs,              *)
(* value = hi * 2^32 + h * 2^16 + l, so that the low 32 bits (h, l) and    *)
(* the bits above them (hi) are told apart; a u32 is a value with hi = 0.  *)
(***************************************************************************)
Limb == 2 ^ 16

Uint(hi, h, l) == [hi |-> hi, h |-> h, l |-> l]

Num(n) == Uint(0, 0, n)

\* 2^32 + 1: the smallest uint256 whose low 32 bits are non-zero and differ
\* from the value.
Big == Uint(1, 0, 1)

\* Exact addition and comparison of limb values.
Plus(a, b) ==
    LET l == a.l + b.l
        h == a.h + b.h + (l \div Limb)
    IN  Uint(a.hi + b.hi + (h \div Limb), h % Limb, l % Limb)

Less(a, b) ==
    \/ a.hi < b.hi
    \/ a.hi = b.hi /\ a.h < b.h
    \/ a.hi = b.hi /\ a.h = b.h /\ a.l < b.l

Leq(a, b) == a = b \/ Less(a, b)

\* U256::low_u32: the low 32 bits, the rest dropped.
low_u32(x) == Uint(0, x.h, x.l)

\* U256::as_u32: the value when it fits 32 bits (fits_u32); otherwise the
\* conversion panics.
fits_u32(x) == x.hi = 0

as_u32(x) == low_u32(x)

\* u32 `+=`: the wrapped sum and whether the addition overflowed 32 bits.
add_u32(a, b) ==
    LET s == Plus(a, b)
    IN  [value |-> low_u32(s), overflow |-> s.hi > 0]

(***************************************************************************)
(* Faults (panics).  "none" is a normal return.                            *)
(***************************************************************************)
NoFault == "none"
DecodeFault == "abi_decode: Err"
NotOwnerFault == "Owner only"
InvalidOperators == "Invalid operators"
InvalidWeights == "Invalid weights"
InvalidThreshold == "Invalid threshold"
NoEpochForHash == "No epoch for provided hash"
DuplicateOperators == "Duplicate operators"
UnwrapNone == "called Option::unwrap on a None value"
CastOverflow == "Integer overflow when casting to u32"
AddOverflow == "attempt to add with overflow"
SubOverflow == "attempt to subtract with overflow"
IndexOutOfBounds == "index out of bounds"
MalformedSigners == "Malformed signers"
LessThanThreshold == "Total weight is less than threshold"

(***************************************************************************)
(* The codec, the hash and signature recovery (crate utils).               *)
(***************************************************************************)
\* What does not decode.
JunkBytes ==
    [kind |-> "junk", operators |-> <<>>, weights |-> <<>>,
     threshold |-> Num(0), pad |-> 0]

\* abi_encode of (address[], uint256[], uint256): the canonical bytes.
abi_encode(operators, weights, threshold) ==
    [kind |-> "abi", operators |-> operators, weights |-> weights,
     threshold |-> threshold, pad |-> 0]

\* abi_decode succeeds on every well-formed encoding, canonical or not.
abi_decodes(bytes) == bytes.kind = "abi"

\* keccak256, collision-free: a digest stands for its one preimage.
keccak256(bytes) == [keccak |-> bytes]

\* to_verifying_key: the key an operator address stands for.
to_verifying_key(address) == [key |-> address]

\* recover: the key that signed, when the signature is over this digest; a
\* signature over another digest recovers to a key of no address.
recover(message_hash, signature) ==
    IF signature.msg = message_hash
    THEN [key |-> signature.signer]
    ELSE [key |-> -1]

(***************************************************************************)
(* LookupMap.                                                              *)
(***************************************************************************)
EmptyMap == [k \in {} |-> 0]

contains_key(map, key) == key \in DOMAIN map

insert(map, key, value) ==
    [k \in DOMAIN map \cup {key} |-> IF k = key THEN value ELSE map[k]]

(***************************************************************************)
(* internal_is_sorted_asc_and_contains_no_duplicate, called with at least  *)
(* one account (the caller tests operators_length == 0 first).             *)
(***************************************************************************)
internal_is_sorted_asc_and_contains_no_duplicate(accounts) ==
    /\ \A i \in 1..(Len(accounts) - 1) : accounts[i] < accounts[i + 1]
    /\ accounts[1] # 0

(***************************************************************************)
(* The u32 accumulation `total_weight += new_weights[i].low_u32()` over    *)
(* the first n weights: the wrapped sum, and whether an addition           *)
(* overflowed (a panic in a build with overflow checks).                   *)
(***************************************************************************)
RECURSIVE total_weight(_, _)
total_weight(new_weights, n) ==
    IF n = 0
    THEN [value |-> Num(0), overflow |-> FALSE]
    ELSE LET before == total_weight(new_weights, n - 1)
             sum == add_u32(before.value, low_u32(new_weights[n]))
         IN  [value |-> sum.value, overflow |-> before.overflow \/ sum.overflow]

(***************************************************************************)
(* internal_transfer_operatorship up to the duplicate test: the fault the  *)
(* checks of the decoded tuple end in, or "none".  checked: the build      *)
(* panics on integer overflow.                                             *)
(***************************************************************************)
operator_set_fault(checked, new_operators, new_weights, new_threshold) ==
    LET operators_length == Len(new_operators)
        weights_length == Len(new_weights)
        total == total_weight(new_weights, weights_length)
    IN  IF \/ operators_length = 0
           \/ ~internal_is_sorted_asc_and_contains_no_duplicate(new_operators)
        THEN InvalidOperators
        ELSE IF weights_length # operators_length
        THEN InvalidWeights
        ELSE IF checked /\ total.overflow
        THEN AddOverflow
        ELSE IF \/ low_u32(new_threshold) = Num(0)
                \/ Less(total.value, low_u32(new_threshold))
        THEN InvalidThreshold
        ELSE NoFault

\* The duplicate test left out: a fingerprint the registry holds is committed
\* again.
duplicate_fault_skipped(self, new_operators_hash) ==
    IF ~contains_key(self.epoch_for_hash, new_operators_hash)
    THEN NoEpochForHash
    ELSE NoFault

\* The duplicate test with its comparison inverted: `== 0` for `> 0`.
duplicate_fault_inverted(self, new_operators_hash) ==
    IF ~contains_key(self.epoch_for_hash, new_operators_hash)
    THEN NoEpochForHash
    ELSE IF self.epoch_for_hash[new_operators_hash] > 0
    THEN NoFault
    ELSE DuplicateOperators

\* The duplicate test off by one: `> 1` for `> 0`.
duplicate_fault_off_by_one(self, new_operators_hash) ==
    IF ~contains_key(self.epoch_for_hash, new_operators_hash)
    THEN NoEpochForHash
    ELSE IF self.epoch_for_hash[new_operators_hash] > 1
    THEN DuplicateOperators
    ELSE NoFault

\* `self.epoch_for_hash.get(&new_operators_hash).expect(..) > 0`: the fault of
\* the duplicate test, or "none" when the rotation may commit.
duplicate_fault(self, new_operators_hash) ==
    IF ~contains_key(self.epoch_for_hash, new_operators_hash)
    THEN NoEpochForHash
    ELSE IF self.epoch_for_hash[new_operators_hash] > 0
    THEN DuplicateOperators
    ELSE NoFault

\* A call's end: its fault ("none": it returned) and the contract it leaves.
\* A panic leaves the contract as the call found it.
Returned(self) == [fault |-> NoFault, self |-> self]

\* A panic that leaves behind an epoch bump made ahead of the checks.
Aborted_keeps_bump(self, fault) ==
    [fault |-> fault, self |-> [self EXCEPT !.current_epoch = @ + 1]]

Aborted(self, fault) == [fault |-> fault, self |-> self]

(***************************************************************************)
(* internal_transfer_operatorship(&mut self, params).                      *)
(***************************************************************************)
internal_transfer_operatorship(self, checked, params) ==
    IF ~abi_decodes(params)
    THEN Aborted(self, DecodeFault)
    ELSE LET shape == operator_set_fault(checked, params.operators,
                                         params.weights, params.threshold)
             new_operators_hash == keccak256(params)
             epoch == self.current_epoch + 1
         IN  IF shape # NoFault
             THEN Aborted(self, shape)
             ELSE IF duplicate_fault(self, new_operators_hash) # NoFault
             THEN Aborted(self, duplicate_fault(self, new_operators_hash))
             ELSE Returned([self EXCEPT
                      !.current_epoch = epoch,
                      !.hash_for_epoch =
                          insert(self.hash_for_epoch, epoch, new_operators_hash),
                      !.epoch_for_hash =
                          insert(self.epoch_for_hash, new_operators_hash, epoch)])

(***************************************************************************)
(* transfer_operatorship(&mut self, params) called by caller:              *)
(* require_owner, then the rotation.                                       *)
(***************************************************************************)
\* The owner gate placed after the rotation's own checks.
transfer_operatorship_gate_last(self, checked, caller, params) ==
    LET end == internal_transfer_operatorship(self, checked, params)
    IN  IF end.fault # NoFault
        THEN end
        ELSE IF caller # self.owner
        THEN Aborted(self, NotOwnerFault)
        ELSE end

transfer_operatorship(self, checked, caller, params) ==
    IF caller # self.owner
    THEN Aborted(self, NotOwnerFault)
    ELSE internal_transfer_operatorship(self, checked, params)

(***************************************************************************)
(* new(recent_operators) called by predecessor: the empty registry, the    *)
(* owner, then one rotation per element; a rotation's panic aborts the     *)
(* construction.                                                           *)
(***************************************************************************)
RECURSIVE seed(_, _, _, _, _)
seed(self, checked, predecessor, recent_operators, n) ==
    IF n = 0
    THEN Returned(self)
    ELSE LET before == seed(self, checked, predecessor, recent_operators, n - 1)
         IN  IF before.fault # NoFault
             THEN before
             ELSE transfer_operatorship(before.self, checked, predecessor,
                                        recent_operators[n])

new(checked, predecessor, recent_operators) ==
    seed([current_epoch |-> 0, hash_for_epoch |-> EmptyMap,
          epoch_for_hash |-> EmptyMap, owner |-> predecessor],
         checked, predecessor, recent_operators, Len(recent_operators))

(***************************************************************************)
(* internal_validate_signatures: the single forward pass over the          *)
(* signatures.  operator_index counts from 0 as in the source.             *)
(***************************************************************************)
\* The `while` loop without its increment: the operator under the cursor is
\* the only one compared.
advance_no_skip(operators, signer, operator_index) ==
    IF /\ operator_index < Len(operators)
       /\ to_verifying_key(operators[operator_index + 1]) = signer
    THEN operator_index
    ELSE Len(operators)

\* The `while` loop restarted from the first operator for every signature.
advance_from_start(operators, signer, operator_index) ==
    LET hits == {j \in 0..(Len(operators) - 1) :
                    to_verifying_key(operators[j + 1]) = signer}
    IN  IF hits # {}
        THEN CHOOSE j \in hits : \A k \in hits : j <= k
        ELSE Len(operators)

\* The `while` loop: the first index at or after operator_index whose operator
\* is the signer, or operator_length when there is none.
advance(operators, signer, operator_index) ==
    LET operator_length == Len(operators)
        hits == {j \in operator_index..(operator_length - 1) :
                    to_verifying_key(operators[j + 1]) = signer}
    IN  IF hits # {}
        THEN CHOOSE j \in hits : \A k \in hits : j <= k
        ELSE IF operator_index < operator_length
        THEN operator_length
        ELSE operator_index

\* How the pass ended: its fault, the cursor, the accumulated weight and the
\* number of signatures recovered.
Pass(fault, operator_index, weight, recovered) ==
    [fault |-> fault, operator_index |-> operator_index, weight |-> weight,
     recovered |-> recovered]

\* `assert!(weight < threshold, "Total weight is less than threshold")` after
\* the loop.
final_assert(weight, threshold) ==
    IF Less(weight, threshold) THEN NoFault ELSE LessThanThreshold

\* The short-circuit left out: the loop goes on to the next signature.
reached_never(weight, threshold) == FALSE

\* `weight >= threshold`: the short-circuit `return` of the loop.
reached(weight, threshold) == ~Less(weight, threshold)

\* The cursor left on the matched operator.
next_index_same(operator_index) == operator_index

\* `operator_index += 1` once the signature is matched.
next_index(operator_index) == operator_index + 1

RECURSIVE signature_loop(_, _, _, _, _, _, _, _, _)
signature_loop(checked, message_hash, operators, weights, threshold, signatures, i, operator_index, weight) ==
    IF i > Len(signatures)
    THEN Pass(final_assert(weight, threshold), operator_index, weight, i - 1)
    ELSE LET signer == recover(message_hash, signatures[i])
             found == advance(operators, signer, operator_index)
             sum == add_u32(weight, weights[found + 1])
         IN  IF found >= Len(operators)
             THEN Pass(MalformedSigners, found, weight, i)
             ELSE IF found >= Len(weights)
             THEN Pass(IndexOutOfBounds, found, weight, i)
             ELSE IF checked /\ sum.overflow
             THEN Pass(AddOverflow, found, weight, i)
             ELSE IF reached(sum.value, threshold)
             THEN Pass(NoFault, found, sum.value, i)
             ELSE signature_loop(checked, message_hash, operators, weights,
                                 threshold, signatures, i + 1,
                                 next_index(found), sum.value)

internal_validate_signatures(checked, message_hash, operators, weights, threshold, signatures) ==
    signature_loop(checked, message_hash, operators, weights, threshold,
                   signatures, 1, 0, Num(0))

(***************************************************************************)
(* validate_proof(&self, message_hash, proof).                             *)
(***************************************************************************)
\* What does not decode as a proof.
JunkProof ==
    [kind |-> "junk", operators |-> <<>>, weights |-> <<>>,
     threshold |-> Num(0), signatures |-> <<>>]

\* The call's end: its fault, the boolean returned, whether signature matching
\* ran, and how it ended.
Verdict(fault, result, matched, pass) ==
    [fault |-> fault, result |-> result, matched |-> matched, pass |-> pass]

NoPass == Pass(NoFault, 0, Num(0), 0)

\* Retention off by one: a set is dropped only after OLD_KEY_RETENTION + 1
\* later epochs.
is_retired_late(epoch, operators_epoch) ==
    epoch - operators_epoch > OLD_KEY_RETENTION

\* `epoch - operators_epoch >= OLD_KEY_RETENTION.into()`.
is_retired(epoch, operators_epoch) ==
    epoch - operators_epoch >= OLD_KEY_RETENTION

\* The value returned once the signatures validate, with the comparison of the
\* epochs left out.
is_current_always(operators_epoch, epoch) == TRUE

\* The comparison of the epochs as `<=`: a retained set counts as current.
is_current_or_newer(operators_epoch, epoch) == operators_epoch <= epoch

\* `operators_epoch == epoch`: the value returned once the signatures validate.
is_current(operators_epoch, epoch) == operators_epoch = epoch

validate_proof(self, checked, message_hash, proof) ==
    IF ~abi_decodes(proof)
    THEN Verdict(DecodeFault, FALSE, FALSE, NoPass)
    ELSE LET operators == proof.operators
             weights == proof.weights
             threshold == proof.threshold
             encoded_operators == abi_encode(operators, weights, threshold)
             operators_hash == keccak256(encoded_operators)
             operators_epoch == self.epoch_for_hash[operators_hash]
             epoch == self.current_epoch
             pass == internal_validate_signatures(checked, message_hash,
                         operators, [i \in 1..Len(weights) |-> as_u32(weights[i])],
                         as_u32(threshold), proof.signatures)
         IN  IF ~contains_key(self.epoch_for_hash, operators_hash)
             THEN Verdict(UnwrapNone, FALSE, FALSE, NoPass)
             ELSE IF operators_epoch = 0
             THEN Verdict(NoFault, FALSE, FALSE, NoPass)
             ELSE IF epoch < operators_epoch
             THEN Verdict(IF checked THEN SubOverflow ELSE NoFault,
                          FALSE, FALSE, NoPass)
             ELSE IF is_retired(epoch, operators_epoch)
             THEN Verdict(NoFault, FALSE, FALSE, NoPass)
             ELSE IF \/ \E i \in 1..Len(weights) : ~fits_u32(weights[i])
                     \/ ~fits_u32(threshold)
             THEN Verdict(CastOverflow, FALSE, FALSE, NoPass)
             ELSE IF pass.fault # NoFault
             THEN Verdict(pass.fault, FALSE, TRUE, pass)
             ELSE Verdict(NoFault, is_current(operators_epoch, epoch), TRUE,
                          pass)

(***************************************************************************)
(* The inputs explored.                                                    *)
(***************************************************************************)
Addresses == 0..MaxAddr

\* The keys signatures recover to: the keys of the non-zero addresses.
Signers == 1..MaxAddr

\* The uint256 values of an input: small ones, and one past 32 bits.
WeightValues == {Num(0), Num(1), Num(2), Big}

ThresholdValues == {Num(0), Num(1), Num(2), Big}

ListsOver(S, n) == UNION {[1..k -> S] : k \in 0..n}

Encodings ==
    [kind : {"abi"}, operators : ListsOver(Addresses, MaxOps),
     weights : ListsOver(WeightValues, MaxOps), threshold : ThresholdValues,
     pad : 0..MaxPad]

Params == Encodings \cup {JunkBytes}

Signatures == [signer : Signers, msg : Digests]

SignatureLists == ListsOver(Signatures, MaxSigs)

\* The bytes of a proof: (address[], uint256[], uint256, bytes[]).
Proof(operators, weights, threshold, signatures) ==
    [kind |-> "abi", operators |-> operators, weights |-> weights,
     threshold |-> threshold, signatures |-> signatures]

Proofs ==
    [kind : {"abi"}, operators : ListsOver(Addresses, MaxOps),
     weights : ListsOver(WeightValues, MaxOps), threshold : ThresholdValues,
     signatures : SignatureLists]
    \cup {JunkProof}

(***************************************************************************)
(* The state machine.                                                      *)
(***************************************************************************)
Self ==
    [current_epoch |-> current_epoch, hash_for_epoch |-> hash_for_epoch,
     epoch_for_hash |-> epoch_for_hash, owner |-> owner]

Holds(self) ==
    /\ current_epoch = self.current_epoch
    /\ hash_for_epoch = self.hash_for_epoch
    /\ epoch_for_hash = self.epoch_for_hash
    /\ owner = self.owner

NoCall ==
    [op |-> "none", caller |-> "-", params |-> JunkBytes, message_hash |-> "-",
     proof |-> JunkProof, fault |-> NoFault, result |-> FALSE,
     matched |-> FALSE, pass |-> NoPass]

\* The contract as new(recent_operators) leaves it, for every construction
\* that does not panic.
Init ==
    /\ \E recent_operators \in ListsOver(Params, 1) :
           \E made \in {new(checked, Deployer, recent_operators) :
                          checked \in Builds} :
               made.fault = NoFault /\ Holds(made.self)
    /\ pc = "idle"
    /\ call = NoCall

\* A transfer_operatorship transaction.
TransferOperatorship(caller, params) ==
    /\ pc = "idle"
    /\ \E end \in {transfer_operatorship(Self, checked, caller, params) :
                      checked \in Builds} :
           /\ current_epoch' = end.self.current_epoch
           /\ hash_for_epoch' = end.self.hash_for_epoch
           /\ epoch_for_hash' = end.self.epoch_for_hash
           /\ owner' = end.self.owner
           /\ call' = [NoCall EXCEPT !.op = "transfer_operatorship",
                                     !.caller = caller, !.params = params,
                                     !.fault = end.fault]
    /\ pc' = "done"

\* validate_proof taking &mut self and counting its calls in current_epoch.
ValidateProof_writes(message_hash, proof) ==
    /\ pc = "idle"
    /\ \E end \in {validate_proof(Self, checked, message_hash, proof) :
                      checked \in Builds} :
           call' = [NoCall EXCEPT !.op = "validate_proof",
                                  !.message_hash = message_hash,
                                  !.proof = proof, !.fault = end.fault,
                                  !.result = end.result,
                                  !.matched = end.matched, !.pass = end.pass]
    /\ pc' = "done"
    /\ current_epoch' = current_epoch + 1
    /\ UNCHANGED <<hash_for_epoch, epoch_for_hash, owner>>

\* A validate_proof call (a view call: &self).
ValidateProof(message_hash, proof) ==
    /\ pc = "idle"
    /\ \E end \in {validate_proof(Self, checked, message_hash, proof) :
                      checked \in Builds} :
           call' = [NoCall EXCEPT !.op = "validate_proof",
                                  !.message_hash = message_hash,
                                  !.proof = proof, !.fault = end.fault,
                                  !.result = end.result,
                                  !.matched = end.matched, !.pass = end.pass]
    /\ pc' = "done"
    /\ UNCHANGED <<current_epoch, hash_for_epoch, epoch_for_hash, owner>>

\* The host hands the outcome to the caller; the contract waits for the next
\* call.
Return ==
    /\ pc = "done"
    /\ pc' = "idle"
    /\ call' = NoCall
    /\ UNCHANGED <<current_epoch, hash_for_epoch, epoch_for_hash, owner>>

\* Calls are serialised by the host: one starts only when none is in progress.
Rotate ==
    /\ pc = "idle"
    /\ \E params \in Params :
           \E caller \in Accounts : TransferOperatorship(caller, params)

Validate ==
    /\ pc = "idle"
    /\ \E proof \in Proofs :
           \E message_hash \in MessageHashes :
               ValidateProof(message_hash, proof)

Next == Rotate \/ Validate \/ Return

Spec == Init /\ [][Next]_vars

(***************************************************************************)
(* The contract holding a registry of committed operator sets.  Each call  *)
(* reads the whole contract (self) from storage; StoredSpec starts the     *)
(* calls from every registry StoredRegistry(n), n in 0..MaxEpoch, in which *)
(* epochs 1..n hold the first n encodings of Chain, and draws the inputs   *)
(* from the operator sets of the data model.                               *)
(***************************************************************************)
RECURSIVE sum_of(_, _)
sum_of(weights, n) ==
    IF n = 0 THEN Num(0) ELSE Plus(sum_of(weights, n - 1), weights[n])

\* The OperatorSet invariants of the data model, on the decoded values.
IsOperatorSet(operators, weights, threshold) ==
    /\ Len(operators) >= 1
    /\ \A i \in 1..Len(operators), j \in 1..Len(operators) :
           i < j => operators[i] < operators[j]
    /\ operators[1] # 0
    /\ Len(weights) = Len(operators)
    /\ \A i \in 1..Len(weights) : fits_u32(weights[i])
    /\ fits_u32(threshold)
    /\ Less(Num(0), threshold)
    /\ Leq(threshold, sum_of(weights, Len(weights)))

\* The encodings of operator sets that a rotation's checks let through.
Committable ==
    {b \in Encodings :
        /\ IsOperatorSet(b.operators, b.weights, b.threshold)
        /\ \A checked \in Builds :
               operator_set_fault(checked, b.operators, b.weights,
                                  b.threshold) = NoFault}

\* The operator sets, each in its canonical encoding.
OperatorSets == {b \in Committable : b.pad = 0}

RECURSIVE SeqOf(_)
SeqOf(S) ==
    IF S = {}
    THEN <<>>
    ELSE LET x == CHOOSE y \in S : TRUE
         IN  SeqOf(S \ {x}) \o <<x>>

\* The committable encodings in a fixed order: the canonical ones first.
RECURSIVE ChainUpTo(_)
ChainUpTo(pad) ==
    IF pad < 0
    THEN <<>>
    ELSE ChainUpTo(pad - 1) \o SeqOf({b \in Committable : b.pad = pad})

Chain == ChainUpTo(MaxPad)

StoredRegistry(n) ==
    [current_epoch |-> n,
     hash_for_epoch |-> [e \in 1..n |-> keccak256(Chain[e])],
     epoch_for_hash |->
         [h \in {keccak256(Chain[e]) : e \in 1..n} |->
             CHOOSE e \in 1..n : keccak256(Chain[e]) = h],
     owner |-> Deployer]

StoredInit ==
    /\ \E n \in 0..MaxEpoch : n <= Len(Chain) /\ Holds(StoredRegistry(n))
    /\ pc = "idle"
    /\ call = NoCall

StoredRotate ==
    /\ pc = "idle"
    /\ \E params \in Committable :
           \E caller \in Accounts : TransferOperatorship(caller, params)

StoredValidate ==
    /\ pc = "idle"
    /\ \E b \in OperatorSets :
           \E signatures \in SignatureLists :
               \E message_hash \in MessageHashes :
                   ValidateProof(message_hash,
                                 Proof(b.operators, b.weights, b.threshold,
                                       signatures))

StoredNext == StoredRotate \/ StoredValidate \/ Return

StoredSpec == StoredInit /\ [][StoredNext]_vars

(***************************************************************************)
(* What the properties read: the call that has just ended, and, for a      *)
(* proof, what the specification says of it, from the proof's own fields   *)
(* and the forward index hash_for_epoch.                                   *)
(***************************************************************************)
Validated == pc = "done" /\ call.op = "validate_proof" /\ abi_decodes(call.proof)

Transferred == pc = "done" /\ call.op = "transfer_operatorship"

\* The epochs at which the registry holds a fingerprint.
EpochsOf(fingerprint) ==
    {e \in DOMAIN hash_for_epoch : hash_for_epoch[e] = fingerprint}

ProofFingerprint ==
    keccak256(abi_encode(call.proof.operators, call.proof.weights,
                         call.proof.threshold))

\* The epoch the proof's operator set was committed at; 0: never committed.
ProofEpoch ==
    IF EpochsOf(ProofFingerprint) = {}
    THEN 0
    ELSE CHOOSE e \in EpochsOf(ProofFingerprint) : TRUE

\* The signature matching of the algorithm runs: the set is known and retained.
MatchingRuns ==
    ProofEpoch > 0 /\ current_epoch - ProofEpoch < OLD_KEY_RETENTION

\* The address whose key the i-th signature recovers to for the digest.
ProofSigner(i) == recover(call.message_hash, call.proof.signatures[i]).key

IsOperator(address) ==
    \E j \in 1..Len(call.proof.operators) : call.proof.operators[j] = address

WeightOf(address) ==
    call.proof.weights[CHOOSE j \in 1..Len(call.proof.operators) :
                           call.proof.operators[j] = address]

\* The first n signatures are by operators, in strictly ascending address order.
Ordered(n) ==
    /\ \A i \in 1..n : IsOperator(ProofSigner(i))
    /\ \A i \in 1..n, j \in 1..n : i < j => ProofSigner(i) < ProofSigner(j)

\* The exact sum of the weights of the signers of the first n signatures.
RECURSIVE SignedWeight(_)
SignedWeight(n) ==
    IF n = 0
    THEN Num(0)
    ELSE Plus(SignedWeight(n - 1), WeightOf(ProofSigner(n)))

\* The exact sum of the weights of the distinct operators, among the first n,
\* that some signature of the proof recovers to.
RECURSIVE MatchedWeight(_)
MatchedWeight(n) ==
    IF n = 0
    THEN Num(0)
    ELSE Plus(MatchedWeight(n - 1),
              IF \E i \in 1..Len(call.proof.signatures) :
                     ProofSigner(i) = call.proof.operators[n]
              THEN call.proof.weights[n]
              ELSE Num(0))

\* The signature array, in order, is by ascending operators whose weights sum
\* to the threshold or more.
OrderedQuorum ==
    /\ Ordered(Len(call.proof.signatures))
    /\ Leq(call.proof.threshold, SignedWeight(Len(call.proof.signatures)))

\* Every signature is matched and the threshold is not reached.
ConsumedBelowThreshold ==
    /\ Ordered(Len(call.proof.signatures))
    /\ Less(SignedWeight(Len(call.proof.signatures)), call.proof.threshold)

\* Matching is still running at the i-th signature, and its signer is no
\* operator at or after the cursor: not an operator, or not after the signer
\* of the signature before it.
UnmatchedAt(i) ==
    /\ Ordered(i - 1)
    /\ Less(SignedWeight(i - 1), call.proof.threshold)
    /\ \/ ~IsOperator(ProofSigner(i))
       \/ i > 1 /\ ProofSigner(i) <= ProofSigner(i - 1)

\* The registry holds the encoding handed to a rotation.
AlreadyCommitted(params) == EpochsOf(keccak256(params)) # {}

OneEpochPerFingerprint ==
    \A e1 \in DOMAIN hash_for_epoch, e2 \in DOMAIN hash_for_epoch :
        hash_for_epoch[e1] = hash_for_epoch[e2] => e1 = e2

\* A rotation by the owner starts and ends in this step, handed params.
OwnerRotates ==
    /\ pc = "idle"
    /\ pc' = "done"
    /\ call'.op = "transfer_operatorship"
    /\ call'.caller = owner

C3_FreshValidRotationTakesTheNextEpoch ==
    [][(/\ OwnerRotates
        /\ call'.params \in Committable
        /\ ~AlreadyCommitted(call'.params))
          => /\ call'.fault = NoFault
             /\ current_epoch' = current_epoch + 1
             /\ DOMAIN hash_for_epoch' = 1..current_epoch'
             /\ hash_for_epoch'[current_epoch'] = keccak256(call'.params)
             /\ epoch_for_hash'[keccak256(call'.params)] = current_epoch']_vars

(***************************************************************************)
(* C4.  validate_proof of a well-formed proof whose fingerprint was never  *)
(* committed returns false as an ordinary result, whatever the signatures  *)
(* and the registry (the empty one included); it does not abort.           *)
(***************************************************************************)
C4_UnknownSetReturnsFalse ==
    (Validated /\ ProofEpoch = 0)
        => call.fault = NoFault /\ call.result = FALSE

MalformedOperators(operators) ==
    \/ Len(operators) = 0
    \/ \E i \in 1..Len(operators), j \in 1..Len(operators) :
           i < j /\ operators[i] >= operators[j]
    \/ operators[1] = 0

\* The thresholds the rotation must refuse: 0, or above the sum of the weights.
MalformedThreshold(weights, threshold) ==
    \/ threshold = Num(0)
    \/ Less(sum_of(weights, Len(weights)), threshold)

(***************************************************************************)
(* C9.  A rotation by the owner of a malformed operator set fails with the *)
(* stated fault and commits nothing: "Invalid operators" for an empty      *)
(* list, a list not strictly ascending or a zero first address; else       *)
(* "Invalid weights" for a weights list of another length; else "Invalid   *)
(* threshold" for a threshold of 0 or above the sum of the weights.        *)
(***************************************************************************)
C9_MalformedSetIsRejectedWithItsFault ==
    [][(OwnerRotates /\ abi_decodes(call'.params))
          => LET operators == call'.params.operators
                 weights == call'.params.weights
                 threshold == call'.params.threshold
             IN  /\ MalformedOperators(operators)
                        => /\ call'.fault = InvalidOperators
                           /\ UNCHANGED registry
                 /\ (/\ ~MalformedOperators(operators)
                     /\ Len(weights) # Len(operators))
                        => /\ call'.fault = InvalidWeights
                           /\ UNCHANGED registry
                 /\ (/\ ~MalformedOperators(operators)
                     /\ Len(weights) = Len(operators)
                     /\ MalformedThreshold(weights, threshold))
                        => /\ call'.fault = InvalidThreshold
                           /\ UNCHANGED registry]_vars

CallEnds == pc = "idle" /\ pc' = "done"

C13_NonOwnerIsRefusedFirst ==
    [][/\ (/\ CallEnds
           /\ call'.op = "transfer_operatorship"
           /\ call'.caller # owner)
              => call'.fault = NotOwnerFault /\ UNCHANGED registry
       /\ current_epoch' # current_epoch
              => /\ call'.op = "transfer_operatorship"
                 /\ call'.caller = owner]_vars

\* A caller other than the owner handed bytes that do not decode and was
\* refused as not the owner.
C13_Witness ==
    /\ Transferred
    /\ call.caller # owner
    /\ ~abi_decodes(call.params)
    /\ call.fault = NotOwnerFault

\* The sequences of up to n pairwise distinct operator sets, in canonical
\* encoding, that a deployment may hand to new.
SeedSequences(n) ==
    {recent_operators \in ListsOver(OperatorSets, n) :
        \A i \in 1..Len(recent_operators), j \in 1..Len(recent_operators) :
            i < j => recent_operators[i] # recent_operators[j]}

(***************************************************************************)
(* C14.  new called by the account that owns the contract, with N valid,  *)
(* pairwise distinct operator-set encodings, returns a contract owned by   *)
(* that account with current_epoch = N and the i-th encoding's fingerprint *)
(* committed at epoch i, in both indexes, for i in 1..N; with the empty    *)
(* sequence, current_epoch = 0 and empty indexes.                          *)
(***************************************************************************)
C14_ConstructionSeedsEpochs ==
    \A recent_operators \in SeedSequences(MaxSeed) :
        \A checked \in Builds :
            LET made == new(checked, owner, recent_operators)
                N == Len(recent_operators)
            IN  /\ made.fault = NoFault
                /\ made.self.owner = owner
                /\ made.self.current_epoch = N
                /\ DOMAIN made.self.hash_for_epoch = 1..N
                /\ \A i \in 1..N :
                       /\ made.self.hash_for_epoch[i] =
                              keccak256(recent_operators[i])
                       /\ contains_key(made.self.epoch_for_hash,
                                       keccak256(recent_operators[i]))
                       /\ made.self.epoch_for_hash[
                              keccak256(recent_operators[i])] = i

QuorumAt(n) ==
    /\ n >= 1
    /\ Ordered(n)
    /\ Leq(call.proof.threshold, SignedWeight(n))
    /\ Less(SignedWeight(n - 1), call.proof.threshold)

MatchedCount ==
    IF call.fault = MalformedSigners
    THEN call.pass.recovered - 1
    ELSE call.pass.recovered

\* The index, from 0, of the operator the i-th signature is by.
OperatorIndexOf(i) ==
    (CHOOSE j \in 1..Len(call.proof.operators) :
         call.proof.operators[j] = ProofSigner(i)) - 1

\* The exact sum of the weights of the distinct operators, among the first n,
\* that one of the first k signatures recovers to.
RECURSIVE DistinctWeight(_, _)
DistinctWeight(n, k) ==
    IF n = 0
    THEN Num(0)
    ELSE Plus(DistinctWeight(n - 1, k),
              IF \E i \in 1..k : ProofSigner(i) = call.proof.operators[n]
              THEN call.proof.weights[n]
              ELSE Num(0))

PassedTheChecks ==
    /\ Transferred
    /\ call.caller = owner
    /\ abi_decodes(call.params)
    /\ call.fault \in {NoFault, NoEpochForHash, DuplicateOperators}

====
